---- MODULE Spec2Model ----
(***************************************************************************)
(* Model of the keying and signing functions of the Reevit Go SDK:        *)
(* GenerateIdempotencyKey (idempotency.go), the webhook helpers           *)
(* BuildMetadata, SignPaystack, SignHubtel, SignPolar, FlutterwaveHash    *)
(* and signHex (package webhooks), the webhook receiver of the README     *)
(* (VerifySignature, webhookHandler) and the client (NewClient,           *)
(* newRequest, do, PaymentsService.CreateIntent).                         *)
(*                                                                         *)
(* A Go string or []byte is a sequence of one-character strings; Ord      *)
(* gives a character's byte value.  The functions are stateless: the      *)
(* state is the call in progress, with the inputs it was given, the       *)
(* values the runtime chose for it (the map iteration order, the wall     *)
(* clock) and what it returned; the caller then takes the result and is   *)
(* free to make the next call.                                            *)
(***************************************************************************)
EXTENDS Integers, Sequences, FiniteSets, TLC

VARIABLES call

vars == <<call>>

----------------------------------------------------------------------------
(* Bounds of the model. *)

\* The largest number of entries of a parameter map.
MaxParams == 2
\* Clock readings cover the time buckets -MaxBucket .. MaxBucket.
MaxBucket == 1
\* The longest run of whitespace put around a secret or an identifier.
MaxPad == 1

----------------------------------------------------------------------------
(* Bytes and strings. *)

\* The byte value of a character (ASCII).
Ord(c) ==
    CASE c = "\t" -> 9
      [] c = "\n" -> 10
      [] c = "\f" -> 12
      [] c = "\r" -> 13
      [] c = " "  -> 32
      [] c = "\"" -> 34
      [] c = "-"  -> 45
      [] c = "0"  -> 48
      [] c = "1"  -> 49
      [] c = "2"  -> 50
      [] c = "3"  -> 51
      [] c = "4"  -> 52
      [] c = "5"  -> 53
      [] c = "6"  -> 54
      [] c = "7"  -> 55
      [] c = "8"  -> 56
      [] c = "9"  -> 57
      [] c = ":"  -> 58
      [] c = "="  -> 61
      [] c = "\\" -> 92
      [] c = "_"  -> 95
      [] c = "a"  -> 97
      [] c = "b"  -> 98
      [] c = "c"  -> 99
      [] c = "d"  -> 100
      [] c = "e"  -> 101
      [] c = "f"  -> 102
      [] c = "h"  -> 104
      [] c = "i"  -> 105
      [] c = "k"  -> 107
      [] c = "l"  -> 108
      [] c = "n"  -> 110
      [] c = "o"  -> 111
      [] c = "p"  -> 112
      [] c = "r"  -> 114
      [] c = "s"  -> 115
      [] c = "t"  -> 116
      [] c = "u"  -> 117
      [] c = "v"  -> 118
      [] c = "x"  -> 120
      [] c = "{"  -> 123
      [] c = "|"  -> 124
      [] c = "}"  -> 125

\* s < t in Go's string order: byte-wise lexicographic, a proper prefix first.
RECURSIVE StringLess(_, _)
StringLess(s, t) ==
    IF t = <<>> THEN FALSE
    ELSE IF s = <<>> THEN TRUE
    ELSE IF Ord(Head(s)) # Ord(Head(t)) THEN Ord(Head(s)) < Ord(Head(t))
    ELSE StringLess(Tail(s), Tail(t))

\* x put into the ascending sequence sorted, before the first element not below it.
RECURSIVE InsertString(_, _)
InsertString(x, sorted) ==
    IF sorted = <<>> THEN <<x>>
    ELSE IF StringLess(Head(sorted), x)
         THEN <<Head(sorted)>> \o InsertString(x, Tail(sorted))
         ELSE <<x>> \o sorted

\* A mutant of SortStrings: the keys are left in the order the map gave them.
SortStringsOmitted(keys) == keys

\* sort.Strings: the keys in ascending order.
RECURSIVE SortStrings(_)
SortStrings(keys) ==
    IF keys = <<>> THEN <<>>
    ELSE InsertString(Head(keys), SortStrings(Tail(keys)))

\* The decimal digits of n >= 0.
RECURSIVE Digits(_)
Digits(n) ==
    LET d == <<"0", "1", "2", "3", "4", "5", "6", "7", "8", "9">>[(n % 10) + 1]
    IN  IF n < 10 THEN <<d>> ELSE Digits(n \div 10) \o <<d>>

\* The %d verb (strconv.Itoa): decimal, a leading '-' for a negative number.
FormatInt(n) == IF n < 0 THEN <<"-">> \o Digits(-n) ELSE Digits(n)

\* The two lowercase hexadecimal digits of a byte.
HexByte(b) ==
    LET hextable == <<"0", "1", "2", "3", "4", "5", "6", "7",
                      "8", "9", "a", "b", "c", "d", "e", "f">>
    IN  <<hextable[(b \div 16) + 1], hextable[(b % 16) + 1]>>

\* The %x verb on a byte array and hex.EncodeToString: two digits a byte.
RECURSIVE EncodeToString(_)
EncodeToString(bytes) ==
    IF bytes = <<>> THEN <<>>
    ELSE HexByte(Head(bytes)) \o EncodeToString(Tail(bytes))

\* The byte values of a string.
Bytes(s) == [i \in 1..Len(s) |-> Ord(s[i])]

\* A digest of size bytes over the byte string msg.  SHA-256, SHA-512 and the
\* HMACs built on them are taken as collision-free functions of fixed output
\* size: the digest holds the length of msg and msg itself, cut or padded
\* with zeros to size, which is collision-free on messages shorter than size.
Digest(size, msg) ==
    LET packed == <<Len(msg)>> \o msg
    IN  [i \in 1..size |-> IF i <= Len(packed) THEN packed[i] ELSE 0]

\* sha256.Sum256: a 32-byte digest.
Sum256(data) == Digest(32, Bytes(data))

----------------------------------------------------------------------------
(* encoding/json: Marshal of a parameter value. *)

\* A JSON string literal's body: '"' and '\' are escaped.
RECURSIVE EscapeString(_)
EscapeString(s) ==
    IF s = <<>> THEN <<>>
    ELSE (IF Head(s) \in {"\"", "\\"} THEN <<"\\", Head(s)>> ELSE <<Head(s)>>)
         \o EscapeString(Tail(s))

\* json.Marshal: the bytes and the error.  A channel (like a function or a
\* complex number) has no JSON form: Marshal returns nil bytes and an
\* UnsupportedTypeError.
Marshal(v) ==
    CASE v.kind = "number" -> [bytes |-> FormatInt(v.val), err |-> "nil"]
      [] v.kind = "string" ->
            [bytes |-> <<"\"">> \o EscapeString(v.val) \o <<"\"">>, err |-> "nil"]
      [] v.kind = "bool" ->
            [bytes |-> IF v.val THEN <<"t", "r", "u", "e">>
                       ELSE <<"f", "a", "l", "s", "e">>,
             err |-> "nil"]
      [] v.kind = "null" -> [bytes |-> <<"n", "u", "l", "l">>, err |-> "nil"]
      [] v.kind = "chan" -> [bytes |-> <<>>, err |-> "UnsupportedTypeError"]

----------------------------------------------------------------------------
(* idempotency.go *)

\* The loop over the sorted keys: key:json entries joined by '|'.  The error
\* of json.Marshal is discarded and the bytes it returned are written.
RECURSIVE WriteEntries(_, _, _)
WriteEntries(params, keys, i) ==
    IF i > Len(keys) THEN <<>>
    ELSE LET key == keys[i]
             valueBytes == Marshal(params[key]).bytes
         IN  (IF i > 1 THEN <<"|">> ELSE <<>>)
             \o key \o <<":">> \o valueBytes
             \o WriteEntries(params, keys, i + 1)

\* The canonical encoding GenerateIdempotencyKey builds: iterated is the order
\* in which range gave the keys of params.
CanonicalEncoding(params, iterated) ==
    WriteEntries(params, SortStrings(iterated), 1)

\* Go's integer division: the quotient truncated toward zero.
GoDiv(a, b) == IF a >= 0 THEN a \div b ELSE -((-a) \div b)

\* time.Now().Unix() / int64(5*60)
TimeBucket(nowUnix) == GoDiv(nowUnix, 5 * 60)

\* GenerateIdempotencyKey(params), the map iterated in the order iterated and
\* the clock reading nowUnix seconds.
GenerateIdempotencyKey(params, iterated, nowUnix) ==
    LET sum == Sum256(CanonicalEncoding(params, iterated))
        timeBucket == TimeBucket(nowUnix)
    IN  <<"r", "e", "e", "v", "i", "t", "_">> \o FormatInt(timeBucket)
        \o <<"_">> \o EncodeToString(sum)

\* How a call of GenerateIdempotencyKey ends: no statement of it panics or
\* returns early, and the error of json.Marshal is assigned to the blank
\* identifier, so it returns a key for every map.
GenerateIdempotencyKeyOutcome(params) == "returned"

----------------------------------------------------------------------------
(* package webhooks *)

\* The ASCII whitespace strings.TrimSpace removes (the model's strings are
\* ASCII; a vertical tab cannot be written as a character here).
IsSpace(c) == c \in {"\t", "\n", "\f", "\r", " "}

\* The leading whitespace removed.
RECURSIVE TrimLeftSpace(_)
TrimLeftSpace(s) ==
    IF s # <<>> /\ IsSpace(Head(s)) THEN TrimLeftSpace(Tail(s)) ELSE s

\* The trailing whitespace removed.
RECURSIVE TrimRightSpace(_)
TrimRightSpace(s) ==
    IF s # <<>> /\ IsSpace(s[Len(s)])
    THEN TrimRightSpace(SubSeq(s, 1, Len(s) - 1))
    ELSE s

\* A mutant of TrimSpace: only the leading whitespace is removed.
TrimSpaceLeadingOnly(s) == TrimLeftSpace(s)

\* strings.TrimSpace
TrimSpace(s) == TrimRightSpace(TrimLeftSpace(s))

\* The digest size of a hash constructor: sha256.New or sha512.New.
Size(factory) == IF factory = "sha512.New" THEN 64 ELSE 32

\* hmac.New(factory, key), Write(message), Sum(nil): the MAC, a collision-free
\* function of the hash, the key and the message.
HmacSum(factory, key, message) ==
    Digest(Size(factory), <<Size(factory), Len(key)>> \o Bytes(key) \o Bytes(message))

\* A mutant of signHex: the secret is used as given.
signHexUntrimmed(body, secret, factory) ==
    IF Len(body) = 0 \/ secret = <<>> THEN <<>>
    ELSE EncodeToString(HmacSum(factory, secret, body))

signHex(body, secret, factory) ==
    LET trimmed == TrimSpace(secret)
    IN  IF Len(body) = 0 \/ trimmed = <<>> THEN <<>>
        ELSE EncodeToString(HmacSum(factory, trimmed, body))

\* A mutant of SignPaystack: the hash of the other schemes.
SignPaystackSha256(body, secretKey) == signHex(body, secretKey, "sha256.New")

SignPaystack(body, secretKey) == signHex(body, secretKey, "sha512.New")

SignHubtel(body, clientSecret) == signHex(body, clientSecret, "sha256.New")

SignPolar(body, clientSecret) == signHex(body, clientSecret, "sha256.New")

\* A mutant of FlutterwaveHash: the value is returned as given.
FlutterwaveHashUntrimmed(secretHash) == secretHash

FlutterwaveHash(secretHash) == TrimSpace(secretHash)

MetadataOrgID == "org_id"

MetadataConnectionID == "connection_id"

MetadataPaymentID == "payment_id"

\* The map meta with meta[key] = value set.
SetEntry(meta, key, value) ==
    [k \in DOMAIN meta \cup {key} |-> IF k = key THEN value ELSE meta[k]]

\* A mutant of BuildMetadata: a blank identifier is stored, as the empty string.
BuildMetadataKeepBlank(orgID, connectionID, paymentID) ==
    SetEntry(SetEntry(SetEntry(<<>>, MetadataOrgID, TrimSpace(orgID)),
                      MetadataConnectionID, TrimSpace(connectionID)),
             MetadataPaymentID, TrimSpace(paymentID))

BuildMetadata(orgID, connectionID, paymentID) ==
    LET meta0 == <<>>
        meta1 == IF TrimSpace(orgID) # <<>>
                 THEN SetEntry(meta0, MetadataOrgID, TrimSpace(orgID)) ELSE meta0
        meta2 == IF TrimSpace(connectionID) # <<>>
                 THEN SetEntry(meta1, MetadataConnectionID, TrimSpace(connectionID))
                 ELSE meta1
        meta3 == IF TrimSpace(paymentID) # <<>>
                 THEN SetEntry(meta2, MetadataPaymentID, TrimSpace(paymentID))
                 ELSE meta2
    IN  meta3

\* The signing function named op applied to a body and a secret.
Sign(op, body, secret) ==
    CASE op = "SignPaystack" -> SignPaystack(body, secret)
      [] op = "SignHubtel" -> SignHubtel(body, secret)
      [] op = "SignPolar" -> SignPolar(body, secret)

----------------------------------------------------------------------------
(* README.md: the webhook receiver. *)

\* strings.HasPrefix
HasPrefix(s, prefix) ==
    Len(s) >= Len(prefix) /\ SubSeq(s, 1, Len(prefix)) = prefix

\* The literal "sha256=".
Sha256Prefix == <<"s", "h", "a", "2", "5", "6", "=">>

\* subtle.ConstantTimeCompare, which hmac.Equal uses: 0 for slices of
\* different length, else 1 exactly when every byte is the same.
ConstantTimeCompare(x, y) ==
    IF Len(x) # Len(y) THEN 0
    ELSE IF \A i \in 1..Len(x) : x[i] = y[i] THEN 1 ELSE 0

\* A mutant of VerifySignature: the prefix is not checked before it is cut off.
VerifySignatureNoPrefixCheck(payload, signature, secret) ==
    IF Len(signature) < 7 THEN [outcome |-> "panic", result |-> FALSE]
    ELSE [outcome |-> "returned",
          result |-> ConstantTimeCompare(
                         SubSeq(signature, 8, Len(signature)),
                         EncodeToString(HmacSum("sha256.New", secret, payload))) = 1]

\* VerifySignature: how the call ends and what it returns.  signature[7:]
\* panics on a string of fewer than 7 bytes.
VerifySignature(payload, signature, secret) ==
    IF ~HasPrefix(signature, Sha256Prefix)
    THEN [outcome |-> "returned", result |-> FALSE]
    ELSE LET expected == EncodeToString(HmacSum("sha256.New", secret, payload))
         IN  IF Len(signature) < 7
             THEN [outcome |-> "panic", result |-> FALSE]
             ELSE LET received == SubSeq(signature, 8, Len(signature))
                  IN  [outcome |-> "returned",
                       result |-> ConstantTimeCompare(received, expected) = 1]

\* json.Unmarshal(body, &event) for the bodies of the model.  A body stands
\* for a JSON document: its first character for the event type, a second
\* character 'x' for event data that is not an object of the event's data
\* type; '{' alone and the empty body are not JSON, and "{}" is an event
\* with no type.
EventDocument(body) ==
    IF body = <<>> \/ body = <<"{">> THEN [err |-> "SyntaxError"]
    ELSE [err |-> "nil",
          Type |-> CASE Head(body) = "t" -> "reevit.webhook.test"
                     [] Head(body) = "p" -> "payment.succeeded"
                     [] Head(body) = "f" -> "payment.failed"
                     [] Head(body) = "r" -> "payment.refunded"
                     [] Head(body) = "n" -> "payment.pending"
                     [] Head(body) = "c" -> "subscription.created"
                     [] Head(body) = "e" -> "subscription.renewed"
                     [] Head(body) = "a" -> "subscription.canceled"
                     [] Head(body) = "u" -> "unknown.event"
                     [] OTHER -> "",
          dataErr |-> (Len(body) > 1 /\ body[2] = "x")]

\* The switch of webhookHandler: the handler function called for an event,
\* "log" where the case only logs, "none" where the data did not decode.
Dispatch(event) ==
    CASE event.Type = "reevit.webhook.test" -> "log"
      [] event.Type = "payment.succeeded" ->
            IF event.dataErr THEN "none" ELSE "handlePaymentSucceeded"
      [] event.Type = "payment.failed" ->
            IF event.dataErr THEN "none" ELSE "handlePaymentFailed"
      [] event.Type = "payment.refunded" ->
            IF event.dataErr THEN "none" ELSE "handlePaymentRefunded"
      [] event.Type = "payment.pending" ->
            IF event.dataErr THEN "none" ELSE "log"
      [] event.Type = "subscription.created" ->
            IF event.dataErr THEN "none" ELSE "handleSubscriptionCreated"
      [] event.Type = "subscription.renewed" ->
            IF event.dataErr THEN "none" ELSE "handleSubscriptionRenewed"
      [] event.Type = "subscription.canceled" ->
            IF event.dataErr THEN "none" ELSE "handleSubscriptionCanceled"
      [] OTHER -> "log"

\* webhookHandler(w, r): readErr says whether reading the body failed, body
\* is the body read, signature the X-Reevit-Signature header ("" when there
\* is none), secret the REEVIT_WEBHOOK_SECRET of the environment ("" when
\* unset).  The result: the status written, whether VerifySignature was
\* called and accepted, whether the event was parsed, the handler called.
webhookHandler(readErr, body, signature, secret) ==
    IF readErr
    THEN [status |-> 400, accepted |-> FALSE, parsed |-> FALSE, handler |-> "none"]
    ELSE IF secret # <<>> /\ ~VerifySignature(body, signature, secret).result
    THEN [status |-> 401, accepted |-> FALSE, parsed |-> FALSE, handler |-> "none"]
    ELSE LET accepted == secret # <<>>
             event == EventDocument(body)
         IN  IF event.err # "nil"
             THEN [status |-> 400, accepted |-> accepted, parsed |-> FALSE,
                   handler |-> "none"]
             ELSE [status |-> 200, accepted |-> accepted, parsed |-> TRUE,
                   handler |-> Dispatch(event)]

----------------------------------------------------------------------------
(* client.go: the client. *)

defaultBaseURLProduction ==
    <<"h", "t", "t", "p", "s", ":", "/", "/", "a", "p", "i", ".", "r",
      "e", "e", "v", "i", "t", ".", "i", "o">>

defaultBaseURLSandbox ==
    <<"h", "t", "t", "p", "s", ":", "/", "/", "s", "a", "n", "d", "b",
      "o", "x", "-", "a", "p", "i", ".", "r", "e", "e", "v", "i", "t",
      ".", "i", "o">>

userAgent == <<"@", "r", "e", "e", "v", "i", "t", "/", "g", "o">>

\* strings.TrimRight(s, "/"): every trailing '/' removed.
RECURSIVE TrimRightSlash(_)
TrimRightSlash(s) ==
    IF s # <<>> /\ s[Len(s)] = "/"
    THEN TrimRightSlash(SubSeq(s, 1, Len(s) - 1))
    ELSE s

\* strings.TrimPrefix(s, prefix)
TrimPrefix(s, prefix) ==
    IF HasPrefix(s, prefix) THEN SubSeq(s, Len(prefix) + 1, Len(s)) ELSE s

\* The option WithBaseURL(url).
WithBaseURL(url) == [option |-> "WithBaseURL", arg |-> url]

\* The option WithHTTPClient(httpClient).
WithHTTPClient(httpClient) == [option |-> "WithHTTPClient", arg |-> httpClient]

\* An option applied to the client c.
ApplyOption(opt, c) ==
    IF opt.option = "WithBaseURL"
    THEN [c EXCEPT !.baseURL = TrimRightSlash(opt.arg)]
    ELSE [c EXCEPT !.httpClient = opt.arg]

\* The loop over opts, from option i on.
RECURSIVE ApplyOptions(_, _, _)
ApplyOptions(opts, i, c) ==
    IF i > Len(opts) THEN c
    ELSE ApplyOptions(opts, i + 1, ApplyOption(opts[i], c))

\* The base URL NewClient chooses from the API key.
DefaultBaseURL(apiKey) ==
    IF HasPrefix(apiKey, <<"p", "k", "_", "t", "e", "s", "t", "_">>)
       \/ HasPrefix(apiKey, <<"p", "k", "_", "s", "a", "n", "d", "b", "o", "x", "_">>)
    THEN defaultBaseURLSandbox
    ELSE defaultBaseURLProduction

\* The services of the client at address addr: each a pointer to its field
\* common, whose client is the client itself.
WithServices(c, addr) ==
    [c EXCEPT !.common = [client |-> addr],
              !.Payments = [object |-> addr, field |-> "common"],
              !.Connections = [object |-> addr, field |-> "common"],
              !.Subscriptions = [object |-> addr, field |-> "common"],
              !.Fraud = [object |-> addr, field |-> "common"]]

\* The Client struct NewClient allocates, at address addr.
NewStruct(apiKey, orgID) ==
    [baseURL |-> <<>>, apiKey |-> apiKey, orgID |-> orgID,
     httpClient |-> "Timeout10s", common |-> [client |-> "nil"],
     Payments |-> [object |-> "nil", field |-> "nil"],
     Connections |-> [object |-> "nil", field |-> "nil"],
     Subscriptions |-> [object |-> "nil", field |-> "nil"],
     Fraud |-> [object |-> "nil", field |-> "nil"]]

\* A mutant of NewClient: the default base URL is set after the options.
NewClientDefaultLast(apiKey, orgID, opts, addr) ==
    LET c1 == ApplyOptions(opts, 1, NewStruct(apiKey, orgID))
        c2 == [c1 EXCEPT !.baseURL = DefaultBaseURL(apiKey)]
    IN  WithServices(c2, addr)

\* NewClient(apiKey, orgID, opts...), the client allocated at address addr.
NewClient(apiKey, orgID, opts, addr) ==
    LET c0 == NewStruct(apiKey, orgID)
        c1 == [c0 EXCEPT !.baseURL = DefaultBaseURL(apiKey)]
        c2 == ApplyOptions(opts, 1, c1)
    IN  WithServices(c2, addr)

----------------------------------------------------------------------------
(* client.go and payments.go: requests. *)

\* http.Header.Set: the header's values replaced by the one value.
HeaderSet(header, key, value) ==
    [k \in DOMAIN header \cup {key} |-> IF k = key THEN <<value>> ELSE header[k]]

\* http.Header.Add: the value appended to the header's values.
HeaderAdd(header, key, value) ==
    [k \in DOMAIN header \cup {key} |->
        IF k = key
        THEN (IF key \in DOMAIN header THEN header[key] ELSE <<>>) \o <<value>>
        ELSE header[k]]

\* A mutant of WithIdempotencyKey: the key is added to the header's values.
WithIdempotencyKeyAdded(key, req) ==
    [req EXCEPT !.Header = HeaderAdd(req.Header, "Idempotency-Key", key)]

\* The request option WithIdempotencyKey(key) applied to the request req.
WithIdempotencyKey(key, req) ==
    [req EXCEPT !.Header = HeaderSet(req.Header, "Idempotency-Key", key)]

\* json.NewEncoder(buf).Encode(body): the JSON text of a request body is
\* taken as a value that names the body; a body whose metadata holds a value
\* with no JSON form gives an error.
EncodeBody(body) ==
    IF body = "unencodable"
    THEN [err |-> "UnsupportedTypeError", bytes |-> <<>>]
    ELSE [err |-> "nil", bytes |-> <<"json", body>>]

\* http.NewRequest refuses a URL with a control character.
ParseURL(u) ==
    IF \E i \in 1..Len(u) : u[i] \in {"\n", "\r", "\t"}
    THEN "invalid control character in URL" ELSE "nil"

\* c.newRequest(method, path, body) of the client c; body "nil" is the nil
\* interface.
newRequest(c, method, path, body) ==
    LET u == c.baseURL \o <<"/">> \o TrimPrefix(path, <<"/">>)
        encoded == IF body # "nil" THEN EncodeBody(body)
                   ELSE [err |-> "nil", bytes |-> <<>>]
    IN  IF encoded.err # "nil" THEN [err |-> encoded.err]
        ELSE IF ParseURL(u) # "nil" THEN [err |-> ParseURL(u)]
        ELSE LET h0 == <<>>
                 h1 == IF body # "nil"
                       THEN HeaderSet(h0, "Content-Type", <<"a", "p", "p", "l", "i", "c", "a", "t", "i", "o", "n", "/", "j", "s", "o", "n">>)
                       ELSE h0
                 h2 == HeaderSet(h1, "User-Agent", userAgent)
                 h3 == HeaderSet(h2, "Authorization",
                                 <<"B", "e", "a", "r", "e", "r", " ">> \o c.apiKey)
                 h4 == HeaderSet(h3, "X-Reevit-Client", <<"@", "r", "e", "e", "v", "i", "t", "/", "g", "o">>)
             IN  [err |-> "nil",
                  req |-> [Method |-> method, URL |-> u, Body |-> encoded.bytes,
                           Header |-> h4]]

\* What a JSON decoder finds in a response body: nothing (io.EOF), text that
\* is not JSON, a value of the wrong type, or an object with the fields it
\* sets.
JSONDocument(body) ==
    CASE body = <<>> -> [err |-> "EOF", fields |-> <<>>]
      [] body = <<"{">> -> [err |-> "unexpected EOF", fields |-> <<>>]
      [] body = <<"1">> -> [err |-> "UnmarshalTypeError", fields |-> <<>>]
      [] body = <<"{", "}">> -> [err |-> "nil", fields |-> <<>>]
      [] body = <<"{", "\"", "i", "d", "\"", ":", "\"", "p", "\"", "}">> -> [err |-> "nil", fields |-> [id |-> <<"p">>]]

\* json.NewDecoder(body).Decode(v): the fields of the document are set in
\* the value v points to, the others are left.
Decode(body, v) ==
    LET doc == JSONDocument(body)
    IN  [err |-> IF doc.err = "nil" THEN [kind |-> "nil"] ELSE [kind |-> doc.err],
         v |-> [v EXCEPT !.val =
                   [f \in DOMAIN v.val |->
                       IF f \in DOMAIN doc.fields THEN doc.fields[f] ELSE v.val[f]]]]

\* A mutant of do: only a status above 400 is an API error.
doAbove400(reply, v) ==
    IF reply.err # "nil" THEN [err |-> [kind |-> reply.err], v |-> v]
    ELSE IF reply.StatusCode > 400
    THEN [err |-> [kind |-> "APIError", StatusCode |-> reply.StatusCode,
                   Message |-> reply.Body],
          v |-> v]
    ELSE IF v.ptr THEN Decode(reply.Body, v)
    ELSE [err |-> [kind |-> "nil"], v |-> v]

\* c.do(ctx, req, v) when c.httpClient.Do(req) gives reply: the error
\* returned and the value v points to afterwards.  v.ptr is false for nil.
do(reply, v) ==
    IF reply.err # "nil" THEN [err |-> [kind |-> reply.err], v |-> v]
    ELSE IF reply.StatusCode >= 400
    THEN [err |-> [kind |-> "APIError", StatusCode |-> reply.StatusCode,
                   Message |-> reply.Body],
          v |-> v]
    ELSE IF v.ptr THEN Decode(reply.Body, v)
    ELSE [err |-> [kind |-> "nil"], v |-> v]

\* The request options applied in turn, from option i on.
RECURSIVE ApplyRequestOptions(_, _, _)
ApplyRequestOptions(keys, i, req) ==
    IF i > Len(keys) THEN req
    ELSE ApplyRequestOptions(keys, i + 1, WithIdempotencyKey(keys[i], req))

\* The zero value of Payment (the fields the model follows).
ZeroPayment == [id |-> <<>>]

\* PaymentsService.CreateIntent(ctx, req, opts...) of the client c, each
\* option a WithIdempotencyKey of one of keys, when the server gives reply:
\* whether a request was made, the request newRequest built, the request
\* handed to the HTTP client, and the payment and the error returned.
CreateIntent(c, req, keys, reply) ==
    LET built == newRequest(c, "POST", <<"/", "v", "1", "/", "p", "a", "y", "m", "e", "n", "t", "s", "/", "i", "n", "t", "e", "n", "t", "s">>, req)
    IN  IF built.err # "nil"
        THEN [requested |-> FALSE, err |-> [kind |-> built.err]]
        ELSE LET httpRequest == ApplyRequestOptions(keys, 1, built.req)
                 done == do(reply, [ptr |-> TRUE, val |-> ZeroPayment])
             IN  [requested |-> TRUE, built |-> built.req, sent |-> httpRequest,
                  returned |-> IF done.err.kind # "nil"
                               THEN [ptr |-> FALSE, val |-> ZeroPayment]
                               ELSE done.v,
                  err |-> done.err]

----------------------------------------------------------------------------
(* The inputs. *)

\* Map keys: the empty key, plain keys, and a key holding ':' and '|'.
ParamKeys == { <<>>, <<"a">>, <<"b">>, <<":", "1", "|", "a">> }

\* Parameter values: a number, a string, null, and a channel.
ParamValues ==
    { [kind |-> "number", val |-> 1], [kind |-> "string", val |-> <<"a">>],
      [kind |-> "null", val |-> 0], [kind |-> "chan", val |-> 0] }

\* The parameter maps of at most MaxParams entries.
ParamSets ==
    UNION { [ks -> ParamValues] :
            ks \in { s \in SUBSET ParamKeys : Cardinality(s) <= MaxParams } }

\* The orders in which range can give the elements of the set ks.
Orders(ks) ==
    { o \in [1..Cardinality(ks) -> ks] : \A i, j \in 1..Cardinality(ks) : o[i] = o[j] => i = j }

\* The clock readings: the first and the last second of each 300-second
\* window, before and after the epoch.
ClockReadings ==
    { b * 300 + r : b \in (-MaxBucket)..MaxBucket, r \in {0, 299} }

\* The strings of at most n characters of the set chars.
RECURSIVE StringsUpTo(_, _)
StringsUpTo(chars, n) ==
    IF n = 0 THEN { <<>> }
    ELSE LET shorter == StringsUpTo(chars, n - 1)
         IN  shorter \cup { <<c>> \o t : c \in chars, t \in shorter }

\* Runs of spaces and tabs of at most MaxPad characters.
Pads == StringsUpTo({" ", "\t"}, MaxPad)

\* Request bodies: empty, a single space, and a JSON object.
Bodies == { <<>>, <<" ">>, <<"{", "}">> }

\* Secrets: nothing, a word, or two words with a space between them, inside
\* leading and trailing whitespace.
Secrets ==
    { p1 \o core \o p2 :
        p1 \in Pads, p2 \in Pads, core \in { <<>>, <<"s">>, <<"s", " ", "k">> } }

\* Identifiers: nothing or a word, inside leading and trailing spaces.
Identifiers ==
    { p1 \o core \o p2 :
        p1 \in StringsUpTo({" "}, MaxPad), p2 \in StringsUpTo({" "}, MaxPad),
        core \in { <<>>, <<"o">> } }

\* Another hexadecimal digit than c.
OtherDigit(c) == IF c = "0" THEN "1" ELSE "0"

\* The string s with the character at position i replaced by another digit.
Flipped(s, i) == [j \in 1..Len(s) |-> IF j = i THEN OtherDigit(s[j]) ELSE s[j]]

\* What a sender can put before the signature: the prefix, another
\* algorithm's tag, the prefix in upper case or without '=', or nothing.
HeaderPrefixes ==
    { Sha256Prefix, <<"s", "h", "a", "5", "1", "2", "=">>,
      <<"S", "H", "A", "2", "5", "6", "=">>, <<"s", "h", "a", "2", "5", "6">>, <<>> }

\* The signatures a header can carry for a body and the receiver's secret:
\* the MAC under the secret as given, the signature signHex produces, each
\* of them whole, one character short, one character long or with its first
\* or last character changed, and nothing.
HeaderSignatures(body, secret) ==
    LET whole == { EncodeToString(HmacSum("sha256.New", secret, body)),
                   signHex(body, secret, "sha256.New") } \ { <<>> }
    IN  { <<>> } \cup whole
        \cup { SubSeq(h, 1, Len(h) - 1) : h \in whole }
        \cup { h \o <<"0">> : h \in whole }
        \cup { Flipped(h, 1) : h \in whole }
        \cup { Flipped(h, Len(h)) : h \in whole }

\* The values of the X-Reevit-Signature header.
SignatureHeaders(body, secret) ==
    { prefix \o sig : prefix \in HeaderPrefixes, sig \in HeaderSignatures(body, secret) }

\* The longest list of options given to NewClient or to a request.
MaxOptions == 2

\* The sequences of at most n elements of the set S.
RECURSIVE SeqsUpTo(_, _)
SeqsUpTo(S, n) ==
    IF n = 0 THEN { <<>> }
    ELSE LET shorter == SeqsUpTo(S, n - 1)
         IN  shorter \cup { <<x>> \o t : x \in S, t \in shorter }

\* API keys: test, sandbox and live keys, a key that stops short of the
\* prefix, the prefix in upper case or after a space, and no key.
ApiKeys ==
    { <<"p", "k", "_", "t", "e", "s", "t", "_", "a">>,
      <<"p", "k", "_", "s", "a", "n", "d", "b", "o", "x", "_", "a">>,
      <<"p", "k", "_", "l", "i", "v", "e", "_", "a">>,
      <<"p", "k", "_", "t", "e", "s", "t">>,
      <<"P", "K", "_", "T", "E", "S", "T", "_", "a">>,
      <<" ", "p", "k", "_", "t", "e", "s", "t", "_", "a">>,
      <<>> }

\* Base URLs given to WithBaseURL: with no, one and two trailing slashes,
\* only a slash, and the empty string.
BaseURLs == { <<"h">>, <<"h", "/">>, <<"h", "/", "/">>, <<"/">>, <<>> }

\* The options given to NewClient.
ClientOptions ==
    { WithBaseURL(url) : url \in BaseURLs } \cup { WithHTTPClient("custom") }

\* The addresses at which a client is allocated.
Addresses == { "c1", "c2" }

\* Idempotency keys given to WithIdempotencyKey.
IdempotencyKeys == { <<>>, <<"j">>, <<"k">> }

\* Request bodies of CreateIntent: a nil *PaymentIntentRequest, an intent,
\* and an intent whose metadata cannot be encoded.
IntentRequests == { "null", "intent", "unencodable" }

\* The clients that send requests: a sandbox client, and one whose base
\* URL holds a line break.
RequestClients ==
    { NewClient(<<"p", "k", "_", "t", "e", "s", "t", "_", "a">>, <<"o">>, <<>>, "c1"),
      NewClient(<<"k">>, <<"o">>, <<WithBaseURL(<<"h", "\n">>)>>, "c1") }

\* What c.httpClient.Do gives: an error of the transport or of the context,
\* or a response with its status and body.
Replies ==
    { [err |-> e, StatusCode |-> 0, Body |-> <<>>] :
        e \in {"connection refused", "context canceled"} }
    \cup { [err |-> "nil", StatusCode |-> status, Body |-> body] :
             status \in {200, 399, 400, 500},
             body \in { <<>>, <<"{">>, <<"1">>, <<"{", "}">>,
                        <<"{", "\"", "i", "d", "\"", ":", "\"", "p", "\"", "}">> } }

\* The result values given to do: nil, a zero Payment, a Payment with an id.
ResultValues ==
    { [ptr |-> FALSE, val |-> ZeroPayment], [ptr |-> TRUE, val |-> ZeroPayment],
      [ptr |-> TRUE, val |-> [id |-> <<"x">>]] }

\* The bodies delivered to the webhook handler: one for each event type,
\* with data that decodes and with data that does not, an event without a
\* type, and a body that is not JSON.
DeliveredBodies ==
    { <<"{">>, <<"{", "}">> }
    \cup { <<t>> : t \in {"t", "p", "f", "r", "n", "c", "e", "a", "u"} }
    \cup { <<t, "x">> : t \in {"t", "p", "f", "r", "n", "c", "e", "a", "u"} }

\* The settings of REEVIT_WEBHOOK_SECRET: unset, a secret, a secret after a space.
WebhookSecrets == { <<>>, <<"s">>, <<" ", "s">> }

\* The X-Reevit-Signature headers of a delivery: none, the valid one, the
\* valid one with its last digit changed, and the signature without prefix.
DeliveredSignatures(body, secret) ==
    LET mac == EncodeToString(HmacSum("sha256.New", secret, body))
    IN  { <<>>, Sha256Prefix \o mac, Sha256Prefix \o Flipped(mac, Len(mac)), mac }

----------------------------------------------------------------------------
(* The state machine. *)

\* No call in progress.
Idle == [op |-> "none"]

Init == call = Idle

CallGenerateIdempotencyKey ==
    /\ call = Idle
    /\ \E params \in ParamSets :
        \E iterated \in Orders(DOMAIN params) :
          \E nowUnix \in ClockReadings :
            call' = [op |-> "GenerateIdempotencyKey",
                     params |-> params, iterated |-> iterated, nowUnix |-> nowUnix,
                     canonical |-> CanonicalEncoding(params, iterated),
                     outcome |-> GenerateIdempotencyKeyOutcome(params),
                     result |-> GenerateIdempotencyKey(params, iterated, nowUnix)]

CallSignPaystack ==
    /\ call = Idle
    /\ \E body \in Bodies :
        \E secret \in Secrets :
          call' = [op |-> "SignPaystack", body |-> body, secret |-> secret,
                   result |-> SignPaystack(body, secret)]

CallSignHubtel ==
    /\ call = Idle
    /\ \E body \in Bodies :
        \E secret \in Secrets :
          call' = [op |-> "SignHubtel", body |-> body, secret |-> secret,
                   result |-> SignHubtel(body, secret)]

CallSignPolar ==
    /\ call = Idle
    /\ \E body \in Bodies :
        \E secret \in Secrets :
          call' = [op |-> "SignPolar", body |-> body, secret |-> secret,
                   result |-> SignPolar(body, secret)]

CallFlutterwaveHash ==
    /\ call = Idle
    /\ \E secretHash \in Secrets :
          call' = [op |-> "FlutterwaveHash", secretHash |-> secretHash,
                   result |-> FlutterwaveHash(secretHash)]

CallBuildMetadata ==
    /\ call = Idle
    /\ \E orgID \in Identifiers :
        \E connectionID \in Identifiers :
          \E paymentID \in Identifiers :
            call' = [op |-> "BuildMetadata", orgID |-> orgID,
                     connectionID |-> connectionID, paymentID |-> paymentID,
                     result |-> BuildMetadata(orgID, connectionID, paymentID)]

CallVerifySignature ==
    /\ call = Idle
    /\ \E payload \in Bodies :
        \E secret \in Secrets :
          \E signature \in SignatureHeaders(payload, secret) :
            LET verdict == VerifySignature(payload, signature, secret)
            IN  call' = [op |-> "VerifySignature", payload |-> payload,
                         signature |-> signature, secret |-> secret,
                         outcome |-> verdict.outcome, result |-> verdict.result]

CallNewClient ==
    /\ call = Idle
    /\ \E apiKey \in ApiKeys :
        \E opts \in SeqsUpTo(ClientOptions, MaxOptions) :
          \E addr \in Addresses :
            call' = [op |-> "NewClient", apiKey |-> apiKey, orgID |-> <<"o">>,
                     opts |-> opts, addr |-> addr,
                     result |-> NewClient(apiKey, <<"o">>, opts, addr)]

CallCreateIntent ==
    /\ call = Idle
    /\ \E c \in RequestClients :
        \E req \in IntentRequests :
          \E keys \in SeqsUpTo(IdempotencyKeys, MaxOptions) :
            \E reply \in Replies :
              call' = [op |-> "CreateIntent", client |-> c, req |-> req,
                       keys |-> keys, reply |-> reply,
                       result |-> CreateIntent(c, req, keys, reply)]

CallDo ==
    /\ call = Idle
    /\ \E reply \in Replies :
        \E v \in ResultValues :
          LET r == do(reply, v)
          IN  call' = [op |-> "do", reply |-> reply, v |-> v,
                       err |-> r.err, after |-> r.v]

ServeWebhook ==
    /\ call = Idle
    /\ \E readErr \in BOOLEAN :
        \E body \in DeliveredBodies :
          \E secret \in WebhookSecrets :
            \E signature \in DeliveredSignatures(body, secret) :
              call' = [op |-> "webhookHandler", readErr |-> readErr,
                       body |-> body, signature |-> signature, secret |-> secret,
                       result |-> webhookHandler(readErr, body, signature, secret)]

\* The caller has the result: the call is over.
Return ==
    /\ call # Idle
    /\ call' = Idle

Next ==
    \/ CallGenerateIdempotencyKey
    \/ CallSignPaystack
    \/ CallSignHubtel
    \/ CallSignPolar
    \/ CallFlutterwaveHash
    \/ CallBuildMetadata
    \/ CallVerifySignature
    \/ CallNewClient
    \/ CallCreateIntent
    \/ CallDo
    \/ ServeWebhook
    \/ Return

Spec == Init /\ [][Next]_vars

----------------------------------------------------------------------------
(* Properties of GenerateIdempotencyKey. *)

\* A call of GenerateIdempotencyKey is in progress.
Generated == call.op = "GenerateIdempotencyKey"

\* Every value of the map has a JSON form.
Serializable(params) == \A k \in DOMAIN params : params[k].kind # "chan"

\* The sequence o is strictly ascending in byte order.
Ascending(o) == \A i, j \in 1..Len(o) : i < j => StringLess(o[i], o[j])

\* The entries key:jsonvalue of the keys of o, in that order, joined by '|'.
RECURSIVE JoinEntries(_, _)
JoinEntries(params, o) ==
    IF o = <<>> THEN <<>>
    ELSE Head(o) \o <<":">> \o Marshal(params[Head(o)]).bytes
         \o (IF Len(o) > 1 THEN <<"|">> ELSE <<>>)
         \o JoinEntries(params, Tail(o))

\* C1: for a fixed clock reading the key and the canonical encoding are the
\* same for every order in which the map gives its entries, and the encoding
\* of a map of JSON values is its entries key:jsonvalue, keys ascending by
\* byte value, joined by '|'.
C1_OrderIndependent ==
    Generated =>
      /\ \A o \in Orders(DOMAIN call.params) :
            /\ CanonicalEncoding(call.params, o) = call.canonical
            /\ GenerateIdempotencyKey(call.params, o, call.nowUnix) = call.result
      /\ Serializable(call.params) =>
            \E o \in Orders(DOMAIN call.params) :
                Ascending(o) /\ call.canonical = JoinEntries(call.params, o)

\* A two-entry map that range gave in descending key order got its key.
C1_Witness ==
    /\ Generated
    /\ Len(call.iterated) = 2
    /\ StringLess(call.iterated[2], call.iterated[1])
    /\ Serializable(call.params)
    /\ Len(call.result) > 64

\* The 300-second window of a clock reading: window w holds the seconds
\* 300 * w .. 300 * w + 299.
Window(t) == t \div 300

\* C2: the same parameters at two clock readings give the same key when the
\* readings lie in the same 300-second window and different keys when they
\* lie in different windows.
C2_WindowStability ==
    Generated =>
      \A t2 \in ClockReadings :
        LET key2 == GenerateIdempotencyKey(call.params, call.iterated, t2)
        IN  IF Window(call.nowUnix) = Window(t2)
            THEN key2 = call.result
            ELSE key2 # call.result

\* The character c is a lowercase hexadecimal digit.
IsLowerHex(c) ==
    c \in {"0", "1", "2", "3", "4", "5", "6", "7", "8", "9", "a", "b", "c", "d", "e", "f"}

\* C3: every key is reevit_<bucket>_<digest>: the bucket the decimal rendering
\* of floor(now_seconds / 300), the digest the 64 lowercase hexadecimal
\* characters of the SHA-256 digest of the canonical encoding (the empty
\* string for the empty map).
C3_KeyFormat ==
    Generated =>
      LET prefix == <<"r", "e", "e", "v", "i", "t", "_">>
          bucket == FormatInt(call.nowUnix \div 300)
          digest == SubSeq(call.result, Len(call.result) - 63, Len(call.result))
      IN  /\ Len(call.result) = Len(prefix) + Len(bucket) + 1 + 64
          /\ SubSeq(call.result, 1, Len(prefix)) = prefix
          /\ SubSeq(call.result, Len(prefix) + 1, Len(prefix) + Len(bucket)) = bucket
          /\ call.result[Len(prefix) + Len(bucket) + 1] = "_"
          /\ \A i \in 1..64 : IsLowerHex(digest[i])
          /\ digest = EncodeToString(Sum256(call.canonical))
          /\ (call.params = <<>> => call.canonical = <<>>)

\* C4: two different parameter sets never have the same canonical encoding,
\* so in the same time bucket they never get the same key.
C4_DistinctKeys ==
    (Generated /\ Serializable(call.params)) =>
      \A other \in ParamSets :
        (Serializable(other) /\ other # call.params) =>
          \A o \in Orders(DOMAIN other) :
            /\ CanonicalEncoding(other, o) # call.canonical
            /\ GenerateIdempotencyKey(other, o, call.nowUnix) # call.result

\* C5: a call whose map holds a value with no JSON form ends in a fatal
\* precondition violation and returns no key.
C5_UnserializableIsFatal ==
    (Generated /\ ~Serializable(call.params)) => call.outcome = "panic"

----------------------------------------------------------------------------
(* Properties of the webhook helpers. *)

\* A call of one of the three signing functions is in progress.
Signed == call.op \in {"SignPaystack", "SignHubtel", "SignPolar"}

\* The string holds nothing but whitespace.
Blank(s) == \A i \in 1..Len(s) : IsSpace(s[i])

\* The string from its first to its last character that is not whitespace.
Core(s) ==
    IF Blank(s) THEN <<>>
    ELSE LET inked == { i \in 1..Len(s) : ~IsSpace(s[i]) }
             first == CHOOSE i \in inked : \A j \in inked : i <= j
             last == CHOOSE i \in inked : \A j \in inked : j <= i
         IN  SubSeq(s, first, last)

\* C6: a signing function returns the empty string exactly when the body has
\* zero length or the secret holds nothing but whitespace.
C6_EmptySentinel ==
    Signed => (call.result = <<>> <=> (Len(call.body) = 0 \/ Blank(call.secret)))

\* A body that is not empty was signed with a secret of whitespace only, and
\* the result is the empty string.
C6_Witness ==
    /\ Signed
    /\ call.body = <<" ">>
    /\ call.secret = <<" ", "\t">>
    /\ call.result = <<>>

\* C7: whitespace added around the secret does not change the signature, and
\* two secrets with the same trimmed form give the same signature for a body.
C7_TrimmedSecretKeys ==
    Signed =>
      /\ \A p1, p2 \in Pads :
            Sign(call.op, call.body, p1 \o call.secret \o p2) = call.result
      /\ \A other \in Secrets :
            Core(other) = Core(call.secret) =>
                Sign(call.op, call.body, other) = call.result

\* A body was signed with a secret that has whitespace on both sides.
C7_Witness ==
    /\ Signed
    /\ call.result # <<>>
    /\ IsSpace(Head(call.secret))
    /\ IsSpace(call.secret[Len(call.secret)])

\* The lowercase hexadecimal rendering of the MAC of body under the trimmed
\* secret, with the hash of the given digest size.
ExpectedSignature(factory, body, secret) ==
    EncodeToString(HmacSum(factory, Core(secret), body))

\* C8: for a body that is not empty and a secret that is not blank,
\* SignPaystack returns the HMAC-SHA512 in 128 lowercase hexadecimal
\* characters, SignHubtel and SignPolar the HMAC-SHA256 in 64; SignHubtel and
\* SignPolar agree on every input.
C8_DesignatedHash ==
    Signed =>
      /\ (Len(call.body) > 0 /\ ~Blank(call.secret)) =>
            /\ Len(call.result) = (IF call.op = "SignPaystack" THEN 128 ELSE 64)
            /\ \A i \in 1..Len(call.result) : IsLowerHex(call.result[i])
            /\ call.result =
                 ExpectedSignature(IF call.op = "SignPaystack"
                                   THEN "sha512.New" ELSE "sha256.New",
                                   call.body, call.secret)
      /\ call.op = "SignHubtel" => SignPolar(call.body, call.secret) = call.result
      /\ call.op = "SignPolar" => SignHubtel(call.body, call.secret) = call.result

\* SignPaystack signed a JSON body with a secret that is not blank.
C8_Witness ==
    /\ call.op = "SignPaystack"
    /\ call.body = <<"{", "}">>
    /\ ~Blank(call.secret)
    /\ Len(call.result) = 128

\* C9: FlutterwaveHash returns its input without the surrounding whitespace
\* and otherwise unchanged; applied to its result it changes nothing; inputs
\* that differ only in surrounding whitespace give the same value.
C9_FlutterwaveTrim ==
    call.op = "FlutterwaveHash" =>
      /\ call.result = Core(call.secretHash)
      /\ FlutterwaveHash(call.result) = call.result
      /\ \A p1, p2 \in Pads :
            FlutterwaveHash(p1 \o call.secretHash \o p2) = call.result

\* FlutterwaveHash was given two words inside whitespace.
C9_Witness ==
    /\ call.op = "FlutterwaveHash"
    /\ call.secretHash = <<" ", "s", " ", "k", "\t">>
    /\ call.result = <<"s", " ", "k">>

\* C10: the map of BuildMetadata has only the keys org_id, connection_id and
\* payment_id; a key is present exactly when its input is not blank; its
\* value is the trimmed input; no value is the empty string.
C10_MetadataKeys ==
    call.op = "BuildMetadata" =>
      LET meta == call.result
          given == [k \in {"org_id", "connection_id", "payment_id"} |->
                      CASE k = "org_id" -> call.orgID
                        [] k = "connection_id" -> call.connectionID
                        [] k = "payment_id" -> call.paymentID]
      IN  /\ DOMAIN meta \subseteq DOMAIN given
          /\ \A k \in DOMAIN given : k \in DOMAIN meta <=> ~Blank(given[k])
          /\ \A k \in DOMAIN meta : meta[k] = Core(given[k]) /\ meta[k] # <<>>
          /\ (\A k \in DOMAIN given : Blank(given[k])) => meta = <<>>

\* BuildMetadata was given a blank organisation, a padded connection and a
\* plain payment identifier.
C10_Witness ==
    /\ call.op = "BuildMetadata"
    /\ call.orgID = <<" ">>
    /\ call.connectionID = <<" ", "o", " ">>
    /\ call.paymentID = <<"o">>
    /\ DOMAIN call.result = {"connection_id", "payment_id"}

----------------------------------------------------------------------------
(* Properties of the webhook receiver. *)

\* A call of VerifySignature is in progress.
Verified == call.op = "VerifySignature"

\* The first characters of s are those of prefix.
StartsWith(s, prefix) ==
    /\ Len(prefix) <= Len(s)
    /\ \A i \in 1..Len(prefix) : s[i] = prefix[i]

\* The part of the header after its first 7 characters.
Remainder(header) == [i \in 1..(Len(header) - 7) |-> header[i + 7]]

\* C11: VerifySignature returns false, and does not panic, for every header
\* that does not start with "sha256=" and for every header whose remainder
\* differs from the expected hexadecimal HMAC in content or in length.
C11_InvalidIsFalse ==
    Verified =>
      LET expected == EncodeToString(HmacSum("sha256.New", call.secret, call.payload))
      IN  /\ call.outcome = "returned"
          /\ ~StartsWith(call.signature, Sha256Prefix) => call.result = FALSE
          /\ (StartsWith(call.signature, Sha256Prefix)
              /\ Remainder(call.signature) # expected) => call.result = FALSE

\* VerifySignature was given the prefix with nothing after it.
C11_Witness ==
    /\ Verified
    /\ call.signature = Sha256Prefix
    /\ call.payload # <<>>
    /\ call.result = FALSE

\* C12: for a body that is not empty and a secret that is not blank, the
\* header "sha256=" followed by the SHA-256 signature signHex produces for
\* the body and the secret is accepted by VerifySignature with the same body
\* and secret, and that header with one hexadecimal character changed is
\* rejected.
C12_RoundTrip ==
    (Verified /\ Len(call.payload) > 0 /\ ~Blank(call.secret)) =>
      LET signed == signHex(call.payload, call.secret, "sha256.New")
      IN  /\ call.signature = Sha256Prefix \o signed => call.result = TRUE
          /\ \A i \in 1..Len(signed) :
                call.signature = Sha256Prefix \o Flipped(signed, i) =>
                    call.result = FALSE

----------------------------------------------------------------------------
(* Properties of the client. *)

\* CreateIntent handed a request to the HTTP client.
Requested == call.op = "CreateIntent" /\ call.result.requested

\* The headers newRequest sets.
BuiltHeaders == {"Content-Type", "User-Agent", "Authorization", "X-Reevit-Client"}

\* C13: with WithIdempotencyKey options the request sent has the one
\* Idempotency-Key value of the last option, unchanged; without one it has
\* no Idempotency-Key header; method, URL, body and the headers newRequest
\* built are those newRequest built.
C13_IdempotencyHeader ==
    Requested =>
      LET sent == call.result.sent
          built == call.result.built
          keys == call.keys
      IN  /\ IF keys = <<>>
             THEN "Idempotency-Key" \notin DOMAIN sent.Header
             ELSE /\ "Idempotency-Key" \in DOMAIN sent.Header
                  /\ sent.Header["Idempotency-Key"] = <<keys[Len(keys)]>>
          /\ sent.Method = "POST" /\ sent.Method = built.Method
          /\ sent.URL = call.client.baseURL \o <<"/", "v", "1", "/", "p", "a", "y", "m", "e", "n", "t", "s", "/", "i", "n", "t", "e", "n", "t", "s">>
          /\ sent.URL = built.URL
          /\ sent.Body = built.Body
          /\ DOMAIN built.Header = BuiltHeaders
          /\ DOMAIN sent.Header \ {"Idempotency-Key"} = BuiltHeaders
          /\ \A h \in BuiltHeaders : sent.Header[h] = built.Header[h]
          /\ sent.Header["Authorization"] = <<<<"B", "e", "a", "r", "e", "r", " ">> \o call.client.apiKey>>
          /\ sent.Header["User-Agent"] = <<<<"@", "r", "e", "e", "v", "i", "t", "/", "g", "o">>>>
          /\ sent.Header["X-Reevit-Client"] = <<<<"@", "r", "e", "e", "v", "i", "t", "/", "g", "o">>>>
          /\ sent.Header["Content-Type"] = <<<<"a", "p", "p", "l", "i", "c", "a", "t", "i", "o", "n", "/", "j", "s", "o", "n">>>>

\* CreateIntent was called with two different keys and sent its request.
C13_Witness ==
    /\ Requested
    /\ call.keys = << <<"j">>, <<"k">> >>
    /\ call.result.sent.Header["Idempotency-Key"] = << <<"k">> >>

\* C14: the webhook handler parses an event, calls a handler for it and
\* answers 200 only after VerifySignature has accepted the signature, and a
\* delivery whose body was read and whose signature is missing or invalid
\* is answered with 401 and no handler is called for it.
C14_VerifiedBeforeDispatch ==
    call.op = "webhookHandler" =>
      LET r == call.result
      IN  /\ (r.parsed \/ r.handler # "none" \/ r.status = 200) => r.accepted
          /\ (~call.readErr
              /\ ~VerifySignature(call.body, call.signature, call.secret).result) =>
                (r.status = 401 /\ r.handler = "none")

\* The string s without its trailing '/' characters: the prefix of s that
\* does not end in '/' and is followed by nothing but '/'.
WithoutTrailingSlashes(s) ==
    LET n == CHOOSE n \in 0..Len(s) :
                 /\ (n > 0 => s[n] # "/")
                 /\ \A i \in (n + 1)..Len(s) : s[i] = "/"
    IN  [i \in 1..n |-> s[i]]

\* The positions of the WithBaseURL options among the options.
BaseURLOptions(opts) == { i \in 1..Len(opts) : opts[i].option = "WithBaseURL" }

\* C15: without a WithBaseURL option the base URL is the sandbox URL exactly
\* when the API key starts with pk_test_ or pk_sandbox_, and the production
\* URL otherwise; with such an option it is the URL of the last one, without
\* its trailing '/'; the four services refer to the client constructed.
C15_BaseURL ==
    call.op = "NewClient" =>
      LET c == call.result
          at == BaseURLOptions(call.opts)
          sandbox == \/ StartsWith(call.apiKey, <<"p", "k", "_", "t", "e", "s", "t", "_">>)
                     \/ StartsWith(call.apiKey, <<"p", "k", "_", "s", "a", "n", "d", "b", "o", "x", "_">>)
      IN  /\ at = {} =>
                /\ sandbox <=> c.baseURL = defaultBaseURLSandbox
                /\ ~sandbox <=> c.baseURL = defaultBaseURLProduction
          /\ at # {} =>
                LET last == CHOOSE i \in at : \A j \in at : j <= i
                IN  c.baseURL = WithoutTrailingSlashes(call.opts[last].arg)
          /\ c.apiKey = call.apiKey
          /\ \A service \in {c.Payments, c.Connections, c.Subscriptions, c.Fraud} :
                /\ service.object = call.addr
                /\ service.field = "common"
                /\ c.common.client = call.addr

\* NewClient was given a test key and two base URLs, the last with two
\* trailing slashes.
C15_Witness ==
    /\ call.op = "NewClient"
    /\ call.apiKey = <<"p", "k", "_", "t", "e", "s", "t", "_", "a">>
    /\ call.opts = <<WithBaseURL(<<"/">>), WithBaseURL(<<"h", "/", "/">>)>>
    /\ call.result.baseURL = <<"h">>

\* C16: do returns an APIError with the status and the raw body for a
\* status of 400 or more, and a transport error as it is, both with the
\* result value unchanged; for a status below 400 it decodes the body into
\* the result value when there is one and returns nil when there is none.
C16_DoResult ==
    call.op = "do" =>
      LET reply == call.reply
      IN  /\ reply.err # "nil" =>
                call.err = [kind |-> reply.err] /\ call.after = call.v
          /\ (reply.err = "nil" /\ reply.StatusCode >= 400) =>
                /\ call.err = [kind |-> "APIError", StatusCode |-> reply.StatusCode,
                               Message |-> reply.Body]
                /\ call.after = call.v
          /\ (reply.err = "nil" /\ reply.StatusCode < 400 /\ ~call.v.ptr) =>
                call.err = [kind |-> "nil"] /\ call.after = call.v
          /\ (reply.err = "nil" /\ reply.StatusCode < 400 /\ call.v.ptr) =>
                LET doc == JSONDocument(reply.Body)
                IN  /\ call.err.kind = doc.err
                    /\ \A f \in DOMAIN doc.fields : call.after.val[f] = doc.fields[f]
                    /\ \A f \in DOMAIN call.v.val \ DOMAIN doc.fields :
                          call.after.val[f] = call.v.val[f]

\* do was given a response of status 400 and a result value that holds an
\* id, and left the value as it was.
C16_Witness ==
    /\ call.op = "do"
    /\ call.reply.err = "nil"
    /\ call.reply.StatusCode = 400
    /\ call.reply.Body = <<"{", "\"", "i", "d", "\"", ":", "\"", "p", "\"", "}">>
    /\ call.v = [ptr |-> TRUE, val |-> [id |-> <<"x">>]]
    /\ call.err.kind = "APIError"
    /\ call.after = call.v

====
